---- MODULE Spec2Model ----
(***************************************************************************)
(* A model of the troi recommendation playground:                         *)
(*   - PeriodicJamsPatch.create (troi/patches/periodic_jams.py) and the   *)
(*     lazy, pull-based execution of the pipeline it returns;              *)
(*   - the constrained playlist assembly the pipeline ends in;             *)
(*   - Patch local storage (troi/patch.py);                                *)
(*   - area_lookup (troi/tools/area_lookup.py);                            *)
(*   - the 'playlist' command of the command line (troi/cli.py).           *)
(* Python strings whose characters matter (dates, jam types, names) are    *)
(* sequences of one-character strings, so that slicing, lower() and        *)
(* formatting are computed, not assumed.                                   *)
(***************************************************************************)
EXTENDS Integers, Sequences, FiniteSets, TLC

VARIABLES
    \* ---- PeriodicJamsPatch.create and the pipeline it builds
    inputs,      \* the dict handed to create: a function whose domain is the keys present
    clock,       \* what datetime.utcnow() answers: <<year, month, day, weekday>>
    pc,          \* position inside create / the run of the pipeline
    jam_type,    \* create's local jam_type
    jam_date,    \* create's local jam_date
    jam_name,    \* create's local jam_name
    elements,    \* the Element objects constructed so far, in construction order
    env,         \* create's local variables that hold elements: name -> index in elements
    raised,      \* the exception that left create: [kind, msg]
    ret,         \* the index of the element create returned, 0 before it returns
    gen_stack,   \* elements whose generate() is on the call stack, root first
    outputs,     \* element index -> what its generate() returned
    gen_calls,   \* number of generate() invocations so far
    io_ops,      \* number of network requests made so far
    \* ---- PlaylistMakerElement, walked one candidate at a time
    mk_pc, mk_cfg, mk_input, mk_pos, mk_out, mk_seen, mk_count, mk_playlist,
    \* ---- Patch local storage
    heap,        \* the dict objects: reference -> (key -> value), absent keys are not in the domain
    patches,     \* the Patch instances: each [_local_storage |-> reference]
    handles,     \* what stages hold after reading patch.local_storage: <<patch, reference>>
    written,     \* per patch, the most recent write per key, as the stages made them
    last_read,   \* the last read a stage made: [patch, key, found, value]
    \* ---- area_lookup
    al_pc, al_area_name, al_response, al_rows, al_raised, al_return,
    \* ---- the command line
    cli_pc, cli_argv, cli_patches, cli_ret, cli_feedback, cli_events, cli_exit

jamsVars == <<inputs, clock, pc, jam_type, jam_date, jam_name, elements, env, raised,
              ret, gen_stack, outputs, gen_calls, io_ops>>
makerVars == <<mk_pc, mk_cfg, mk_input, mk_pos, mk_out, mk_seen, mk_count, mk_playlist>>
storageVars == <<heap, patches, handles, written, last_read>>
areaVars == <<al_pc, al_area_name, al_response, al_rows, al_raised, al_return>>
cliVars == <<cli_pc, cli_argv, cli_patches, cli_ret, cli_feedback, cli_events, cli_exit>>
vars == <<jamsVars, makerVars, storageVars, areaVars, cliVars>>
notJams == <<makerVars, storageVars, areaVars, cliVars>>
notMaker == <<jamsVars, storageVars, areaVars, cliVars>>
notStorage == <<jamsVars, makerVars, areaVars, cliVars>>
notArea == <<jamsVars, makerVars, storageVars, cliVars>>
notCli == <<jamsVars, makerVars, storageVars, areaVars>>

-----------------------------------------------------------------------------
(* Python strings *)

S_daily_jams == <<"d", "a", "i", "l", "y", "-", "j", "a", "m", "s">>
S_weekly_jams == <<"w", "e", "e", "k", "l", "y", "-", "j", "a", "m", "s">>
S_weekly_exploration ==
    <<"w", "e", "e", "k", "l", "y", "-", "e", "x", "p", "l", "o", "r", "a", "t", "i", "o", "n">>
S_monthly_jams == <<"m", "o", "n", "t", "h", "l", "y", "-", "j", "a", "m", "s">>
S_Daily_Jams_mixed == <<"D", "a", "i", "l", "y", "-", "J", "a", "m", "s">>
S_Daily_Jams == <<"D", "a", "i", "l", "y", " ", "J", "a", "m", "s">>
S_Weekly_Jams == <<"W", "e", "e", "k", "l", "y", " ", "J", "a", "m", "s">>
S_Weekly_Exploration ==
    <<"W", "e", "e", "k", "l", "y", " ", "E", "x", "p", "l", "o", "r", "a", "t", "i", "o", "n">>
S_week_of == <<"w", "e", "e", "k", " ", "o", "f", " ">>
S_for == <<" ", "f", "o", "r", " ">>
S_comma == <<",", " ">>
S_playlist == <<" ", "p", "l", "a", "y", "l", "i", "s", "t", "!">>
S_04_01 == <<"0", "4", "-", "0", "1">>
S_must_be ==
    <<"J", "a", "m", " ", "t", "y", "p", "e", " ", "m", "u", "s", "t", " ", "b", "e", " ",
      "o", "n", "e", " ", "o", "f", " ">>
S_goofed ==
    <<"s", "o", "m", "e", "o", "n", "e", " ", "g", "o", "o", "f", "e", "d", " ", "u", "p", "!">>
S_rob == <<"r", "o", "b">>

Min(a, b) == IF a < b THEN a ELSE b

\* s[lo:hi] of Python, for 0 <= lo <= hi: the indices are clamped to the length
Slice(s, lo, hi) == SubSeq(s, lo + 1, Min(hi, Len(s)))

DigitChars == <<"0", "1", "2", "3", "4", "5", "6", "7", "8", "9">>
\* "%02d" and "%04d" of strftime
TwoDigits(n) == <<DigitChars[((n \div 10) % 10) + 1], DigitChars[(n % 10) + 1]>>
FourDigits(n) == TwoDigits(n \div 100) \o TwoDigits(n % 100)
DigitVal(c) == CHOOSE v \in 0..9 : DigitChars[v + 1] = c

\* date.strftime("%Y-%m-%d"), the 'YYYY-MM-DD' a caller passes as jam_date
FormatDate(d) == FourDigits(d[1]) \o <<"-">> \o TwoDigits(d[2]) \o <<"-">> \o TwoDigits(d[3])
\* datetime.utcnow().strftime("%Y-%m-%d %a")
StrftimeYmdA(now) == FormatDate(now) \o <<" ">> \o now[4]

\* str.lower(), on the letters that occur in the inputs
LowerChar(c) ==
    CASE c = "D" -> "d" [] c = "J" -> "j" [] c = "W" -> "w" [] c = "E" -> "e" [] OTHER -> c
Lower(s) == [i \in 1..Len(s) |-> LowerChar(s[i])]

\* sep.join(s) where s is a str: its characters, separated by sep
RECURSIVE Join(_, _)
Join(sep, s) ==
    IF Len(s) = 0 THEN <<>>
    ELSE IF Len(s) = 1 THEN <<s[1]>>
    ELSE <<s[1]>> \o sep \o Join(sep, Tail(s))

\* dict.get(key): the value, or None when the key is absent
Has(d, key) == key \in DOMAIN d
Get(d, key) == IF Has(d, key) THEN d[key] ELSE "None"

-----------------------------------------------------------------------------
(* periodic_jams.py: constants *)

DAYS_OF_RECENT_LISTENS_TO_EXCLUDE == 60
JAM_TYPES == <<S_daily_jams, S_weekly_jams, S_weekly_exploration>>
InTuple(x, t) == \E i \in 1..Len(t) : t[i] = x

NoError == [kind |-> "none", msg |-> <<>>]

(* Element() and Element.set_sources: an element is built with no sources and
   executes nothing; set_sources attaches the upstream element *)
Construct(kind, args) == [kind |-> kind, args |-> args, sources |-> <<>>]
set_sources(els, e, src) == [els EXCEPT ![e].sources = <<src>>]

\* PeriodicJamsPatch.JAM_TYPES membership, as create tests it: on jam_type itself
\* (the lower-cased copy is bound to jam_types and only used in the message)
JamTypeAcceptedLowered(t) == InTuple(Lower(t), JAM_TYPES)
JamTypeAccepted(t) == InTuple(t, JAM_TYPES)

NoArgs == <<>>

\* the arguments create passes to NeverListenedFilterElement for each jam type
NeverListenedArgsSwapped(t) ==
    IF t \in {S_daily_jams, S_weekly_jams} THEN [remove_unlistened |-> FALSE] ELSE NoArgs
NeverListenedArgs(t) ==
    IF t \in {S_daily_jams, S_weekly_jams} THEN NoArgs ELSE [remove_unlistened |-> FALSE]

max_num_recordings == 50
max_artist_occurrence_loose == 2 + 1
max_artist_occurrence == 2

\* is_april_first=(jam_date[5:10] == "04-01")
is_april_first(jd) == Slice(jd, 5, 10) = S_04_01

\* the keyword arguments of PlaylistMakerElement(...) in create
PlaylistMakerArgs(name, user_name, date, type, now) ==
    [name |-> name \o S_for \o user_name \o S_comma \o date,
     desc |-> name \o S_playlist,
     patch_slug |-> type,
     max_num_recordings |-> max_num_recordings,
     max_artist_occurrence |-> max_artist_occurrence,
     shuffle |-> TRUE,
     expires_at |-> [utcnow |-> now, weeks |-> 2],
     is_april_first |-> is_april_first(date)]

\* which element each stage of create is linked to by set_sources
LatestFilterSourceBypass == env.recent_listens_lookup
LatestFilterSource == env.never_listened

jamsRun == <<gen_stack, outputs, gen_calls, io_ops>>

\* a new element, bound to a local variable of create and linked to its source
NewElement(var, kind, args, src) ==
    LET n == Len(elements) + 1
        built == Append(elements, Construct(kind, args))
    IN /\ elements' = IF src = 0 THEN built ELSE set_sources(built, n, src)
       /\ env' = (var :> n) @@ env

\* lines 94-104: the inputs, the default date and type, the type check
CreateInputs ==
    /\ pc = "create"
    /\ jam_date' = IF Has(inputs, "jam_date") THEN inputs.jam_date ELSE StrftimeYmdA(clock)
    /\ IF ~Has(inputs, "type")
       THEN /\ jam_type' = JAM_TYPES[1]
            /\ raised' = raised
            /\ pc' = "recs"
       ELSE LET jam_types == Lower(inputs.type)
            IN /\ jam_type' = inputs.type
               /\ IF ~JamTypeAccepted(inputs.type)
                  THEN /\ raised' = [kind |-> "RuntimeError",
                                     msg |-> S_must_be \o Join(S_comma, jam_types)]
                       /\ pc' = "raised"
                  ELSE /\ raised' = raised
                       /\ pc' = "recs"
    /\ UNCHANGED <<notJams, inputs, clock, jam_name, elements, env, ret, jamsRun>>

\* lines 106-109
CreateRecsEager ==
    /\ pc = "recs"
    /\ NewElement("recs", "UserRecordingRecommendationsElement",
                  [user_name |-> inputs.user_name, artist_type |-> "raw", count |-> 1000,
                   auth_token |-> Get(inputs, "token")], 0)
    /\ pc' = "recent_listens"
    /\ gen_calls' = gen_calls + 1
    /\ io_ops' = io_ops + 1
    /\ UNCHANGED <<notJams, inputs, clock, jam_type, jam_date, jam_name, raised, ret, gen_stack, outputs>>

CreateRecs ==
    /\ pc = "recs"
    /\ NewElement("recs", "UserRecordingRecommendationsElement",
                  [user_name |-> inputs.user_name, artist_type |-> "raw", count |-> 1000,
                   auth_token |-> Get(inputs, "token")], 0)
    /\ pc' = "recent_listens"
    /\ UNCHANGED <<notJams, inputs, clock, jam_type, jam_date, jam_name, raised, ret, jamsRun>>

\* lines 111-114
CreateRecentListens ==
    /\ pc = "recent_listens"
    /\ NewElement("recent_listens_lookup", "RecentListensTimestampLookup",
                  [user_name |-> inputs.user_name, days |-> 2,
                   auth_token |-> Get(inputs, "token")], env.recs)
    /\ pc' = "never_listened"
    /\ UNCHANGED <<notJams, inputs, clock, jam_type, jam_date, jam_name, raised, ret, jamsRun>>

\* lines 116-132
CreateNeverListened ==
    /\ pc = "never_listened"
    /\ IF jam_type \in {S_daily_jams, S_weekly_jams}
       THEN /\ NewElement("never_listened", "NeverListenedFilterElement",
                          NeverListenedArgs(jam_type), env.recent_listens_lookup)
            /\ IF jam_type = S_daily_jams
               THEN jam_name' = S_Daily_Jams /\ jam_date' = jam_date
               ELSE jam_name' = S_Weekly_Jams /\ jam_date' = S_week_of \o jam_date
            /\ pc' = "latest_filter"
            /\ raised' = raised
       ELSE IF jam_type = S_weekly_exploration
       THEN /\ NewElement("never_listened", "NeverListenedFilterElement",
                          NeverListenedArgs(jam_type), env.recent_listens_lookup)
            /\ jam_name' = S_Weekly_Exploration
            /\ jam_date' = S_week_of \o jam_date
            /\ pc' = "latest_filter"
            /\ raised' = raised
       ELSE /\ raised' = [kind |-> "RuntimeError", msg |-> S_goofed]
            /\ pc' = "raised"
            /\ UNCHANGED <<elements, env, jam_name, jam_date>>
    /\ UNCHANGED <<notJams, inputs, clock, jam_type, ret, jamsRun>>

\* lines 134-135
CreateLatestFilter ==
    /\ pc = "latest_filter"
    /\ NewElement("latest_filter", "LatestListenedAtFilterElement",
                  [min_number_of_days |-> DAYS_OF_RECENT_LISTENS_TO_EXCLUDE],
                  LatestFilterSource)
    /\ pc' = "feedback"
    /\ UNCHANGED <<notJams, inputs, clock, jam_type, jam_date, jam_name, raised, ret, jamsRun>>

\* lines 137-138
CreateFeedback ==
    /\ pc = "feedback"
    /\ NewElement("feedback_lookup", "ListensFeedbackLookup",
                  [user_name |-> inputs.user_name, auth_token |-> Get(inputs, "token")],
                  env.latest_filter)
    /\ pc' = "recs_lookup"
    /\ UNCHANGED <<notJams, inputs, clock, jam_type, jam_date, jam_name, raised, ret, jamsRun>>

\* lines 140-141
CreateRecordingLookup ==
    /\ pc = "recs_lookup"
    /\ NewElement("recs_lookup", "RecordingLookupElement", NoArgs, env.feedback_lookup)
    /\ pc' = "hate_filter"
    /\ UNCHANGED <<notJams, inputs, clock, jam_type, jam_date, jam_name, raised, ret, jamsRun>>

\* lines 143-144
CreateHateFilter ==
    /\ pc = "hate_filter"
    /\ NewElement("hate_filter", "HatedRecordingsFilterElement", NoArgs, env.recs_lookup)
    /\ pc' = "pl_maker"
    /\ UNCHANGED <<notJams, inputs, clock, jam_type, jam_date, jam_name, raised, ret, jamsRun>>

\* lines 146-156
CreatePlaylistMaker ==
    /\ pc = "pl_maker"
    /\ NewElement("pl_maker", "PlaylistMakerElement",
                  PlaylistMakerArgs(jam_name, inputs.user_name, jam_date, jam_type, clock),
                  env.hate_filter)
    /\ ret' = Len(elements) + 1
    /\ pc' = "returned"
    /\ UNCHANGED <<notJams, inputs, clock, jam_type, jam_date, jam_name, raised, jamsRun>>

-----------------------------------------------------------------------------
(* The elements' behaviour when the pipeline runs.  A recording is
   [mbid, artist, listenbrainz]: artist is 0 until the recording lookup has
   filled it in, listenbrainz is the annotation map (absent keys are not in its
   domain).  latest_listened_at is kept as the age of the listen in days. *)

MaxCands == 2       \* longest list the recommendations service answers with, and
                    \* the number of recordings it knows
NumArtists == 1     \* artists the recording lookup knows
Ages == {0, 60, 61} \* ages in days of a latest listen, around the 60-day limit
NoListen == -1      \* the listens service has no listen of the recording
Scores == {-1, 0, 1} \* feedback: hated, none, loved

Mbids == 1..MaxCands
\* the recordings of a list
Mbid(list) == {list[i].mbid : i \in 1..Len(list)}
Recording(m) == [mbid |-> m, artist |-> 0, listenbrainz |-> NoArgs]
SeqsUpTo(S, n) == UNION {[1..k -> S] : k \in 0..n}

\* a lookup stage writes its annotation on every recording it has an answer for
Annotate(list, key, answer, none) ==
    [i \in 1..Len(list) |->
        IF answer[list[i].mbid] = none THEN list[i]
        ELSE [list[i] EXCEPT !.listenbrainz = (key :> answer[list[i].mbid]) @@ @]]

\* NeverListenedFilterElement: remove_unlistened (the default) keeps the
\* recordings that have been listened to, its negation keeps the others
RemoveUnlistened(args) ==
    IF Has(args, "remove_unlistened") THEN args.remove_unlistened ELSE TRUE
Listened(r) == Has(r.listenbrainz, "latest_listened_at")
NeverListenedFilter(list, args) ==
    LET keep(r) == IF RemoveUnlistened(args) THEN Listened(r) ELSE ~Listened(r)
    IN SelectSeq(list, keep)

\* LatestListenedAtFilterElement: drop what was listened to within the last
\* min_number_of_days days; a recording without the annotation is kept
LatestListenedAtFilter(list, args) ==
    LET keep(r) == ~Listened(r) \/ r.listenbrainz.latest_listened_at > args.min_number_of_days
    IN SelectSeq(list, keep)

\* HatedRecordingsFilterElement: drop the recordings whose feedback score is -1
Hated(r) == Has(r.listenbrainz, "score") /\ r.listenbrainz.score = -1
HatedRecordingsFilter(list) ==
    LET keep(r) == ~Hated(r)
    IN SelectSeq(list, keep)

\* PlaylistMakerElement, steps 1-3: walk the candidates in rank order, skip a
\* recording already taken and one whose artist is at the cap, stop at the size cap
ArtistCount(out, a) == Cardinality({j \in 1..Len(out) : out[j].artist = a})
Admit(out, r, cfg) ==
    /\ \A j \in 1..Len(out) : out[j].mbid # r.mbid
    /\ ArtistCount(out, r.artist) + 1 <= cfg.max_artist_occurrence
RECURSIVE Walk(_, _, _, _)
Walk(list, i, out, cfg) ==
    IF i > Len(list) \/ Len(out) >= cfg.max_num_recordings THEN out
    ELSE Walk(list, i + 1, IF Admit(out, list[i], cfg) THEN Append(out, list[i]) ELSE out, cfg)
SelectRecordings(list, cfg) == Walk(list, 1, <<>>, cfg)

\* step 4, random.shuffle: any order of the selected recordings.  Every
\* permutation up to MaxPermLen recordings; beyond, the rotations and the reversal.
MaxPermLen == 3
Reverse(s) == [i \in 1..Len(s) |-> s[Len(s) + 1 - i]]
Rotate(s, k) == [i \in 1..Len(s) |-> s[((i + k - 1) % Len(s)) + 1]]
Shuffles(s) ==
    IF Len(s) <= MaxPermLen
    THEN {[i \in 1..Len(s) |-> s[p[i]]] : p \in Permutations(1..Len(s))}
    ELSE {Rotate(s, k) : k \in 0..(Len(s) - 1)} \cup {Reverse(s)}
Orders(s, cfg) == IF cfg.shuffle THEN Shuffles(s) ELSE {s}

\* step 5: the playlist, with the April 1st description variant
MakePlaylist(recordings, cfg) ==
    [name |-> cfg.name,
     description |-> IF cfg.is_april_first THEN <<"april-first variant of">> \o cfg.desc
                     ELSE cfg.desc,
     patch_slug |-> cfg.patch_slug,
     expires_at |-> cfg.expires_at,
     recordings |-> recordings]

(* Element.generate: pull from every source, in declared order, then read() *)
Top == gen_stack[Len(gen_stack)]
Pending(e) == {i \in 1..Len(elements[e].sources) : elements[e].sources[i] \notin DOMAIN outputs}
Ready(kind) ==
    /\ pc = "generating"
    /\ gen_stack # <<>>
    /\ elements[Top].kind = kind
    /\ Pending(Top) = {}
Source == outputs[elements[Top].sources[1]]
Return(result) ==
    /\ outputs' = (Top :> result) @@ outputs
    /\ gen_stack' = SubSeq(gen_stack, 1, Len(gen_stack) - 1)
    /\ pc' = IF Len(gen_stack) = 1 THEN "done" ELSE pc
    /\ UNCHANGED <<notJams, inputs, clock, jam_type, jam_date, jam_name, elements, env, raised, ret,
                   gen_calls>>

\* the consumer (PlaylistElement) calls generate on the element create returned
GenerateRoot ==
    /\ pc = "returned"
    /\ pc' = "generating"
    /\ gen_stack' = <<ret>>
    /\ gen_calls' = gen_calls + 1
    /\ UNCHANGED <<notJams, inputs, clock, jam_type, jam_date, jam_name, elements, env, raised, ret,
                   outputs, io_ops>>

PullSource ==
    /\ pc = "generating"
    /\ gen_stack # <<>>
    /\ Pending(Top) # {}
    /\ LET i == CHOOSE i \in Pending(Top) : \A j \in Pending(Top) : i <= j
       IN gen_stack' = Append(gen_stack, elements[Top].sources[i])
    /\ gen_calls' = gen_calls + 1
    /\ UNCHANGED <<notJams, inputs, clock, pc, jam_type, jam_date, jam_name, elements, env, raised, ret,
                   outputs, io_ops>>

ReadRecs ==
    /\ Ready("UserRecordingRecommendationsElement")
    /\ io_ops' = io_ops + 1
    /\ \E ms \in SeqsUpTo(Mbids, MaxCands) :
          Return([i \in 1..Len(ms) |-> Recording(ms[i])])

ReadRecentListens ==
    /\ Ready("RecentListensTimestampLookup")
    /\ io_ops' = io_ops + 1
    /\ \E answer \in [Mbid(Source) -> Ages \cup {NoListen}] :
          Return(Annotate(Source, "latest_listened_at", answer, NoListen))

ReadNeverListened ==
    /\ Ready("NeverListenedFilterElement")
    /\ io_ops' = io_ops
    /\ Return(NeverListenedFilter(Source, elements[Top].args))

ReadLatestListenedAt ==
    /\ Ready("LatestListenedAtFilterElement")
    /\ io_ops' = io_ops
    /\ Return(LatestListenedAtFilter(Source, elements[Top].args))

ReadFeedback ==
    /\ Ready("ListensFeedbackLookup")
    /\ io_ops' = io_ops + 1
    /\ \E answer \in [Mbid(Source) -> Scores] :
          Return(Annotate(Source, "score", answer, 2))

ReadRecordingLookup ==
    /\ Ready("RecordingLookupElement")
    /\ io_ops' = io_ops + 1
    /\ \E answer \in [Mbid(Source) -> 1..NumArtists] :
          Return([i \in 1..Len(Source) |-> [Source[i] EXCEPT !.artist = answer[Source[i].mbid]]])

ReadHated ==
    /\ Ready("HatedRecordingsFilterElement")
    /\ io_ops' = io_ops
    /\ Return(HatedRecordingsFilter(Source))

ReadPlaylistMaker ==
    /\ Ready("PlaylistMakerElement")
    /\ io_ops' = io_ops
    /\ \E order \in Orders(SelectRecordings(Source, elements[Top].args), elements[Top].args) :
          Return(MakePlaylist(order, elements[Top].args))

\* the callers of create: a user name, an optional type, an optional 'YYYY-MM-DD'
Absent == <<"absent">>
Opt(key, v) == IF v = Absent THEN NoArgs ELSE (key :> v)
TypeInputs ==
    {Absent, S_daily_jams, S_weekly_jams, S_weekly_exploration, S_monthly_jams,
     S_Daily_Jams_mixed}
DateInputs == {FormatDate(d) : d \in {<<2024, 4, 1>>, <<2023, 1, 4>>}}
Clocks == {<<2024, 4, 1, <<"M", "o", "n">> >>, <<2026, 11, 2, <<"M", "o", "n">> >>}
\* a date is given and the clock is anywhere, or none is and the clock decides
DatesAndClocks ==
    {<<d, <<2026, 11, 2, <<"M", "o", "n">> >> >> : d \in DateInputs}
    \cup {<<Absent, c>> : c \in Clocks}

JamsStart ==
    /\ jam_type = <<>> /\ jam_date = <<>> /\ jam_name = <<>>
    /\ elements = <<>> /\ env = NoArgs /\ raised = NoError /\ ret = 0
    /\ gen_stack = <<>> /\ outputs = NoArgs /\ gen_calls = 0 /\ io_ops = 0
JamsInit ==
    /\ \E t \in TypeInputs, dc \in DatesAndClocks :
          /\ inputs = Opt("type", t) @@ Opt("jam_date", dc[1]) @@ [user_name |-> S_rob]
          /\ clock = dc[2]
    /\ pc = "create"
    /\ JamsStart
JamsIdle ==
    /\ inputs = [user_name |-> S_rob]
    /\ clock = <<2026, 11, 2, <<"M", "o", "n">> >>
    /\ pc = "idle"
    /\ JamsStart

JamsNext ==
    \/ CreateInputs \/ CreateRecs \/ CreateRecentListens \/ CreateNeverListened
    \/ CreateLatestFilter \/ CreateFeedback \/ CreateRecordingLookup \/ CreateHateFilter
    \/ CreatePlaylistMaker
    \/ GenerateRoot \/ PullSource
    \/ ReadRecs \/ ReadRecentListens \/ ReadNeverListened \/ ReadLatestListenedAt
    \/ ReadFeedback \/ ReadRecordingLookup \/ ReadHated \/ ReadPlaylistMaker

-----------------------------------------------------------------------------
(* PlaylistMakerElement as create configures it, walked one candidate at a
   time: the output sequence, the seen-recording set and the artist counter
   of the assembly algorithm are state. *)

MkMbids == 3        \* recordings of the short candidate lists
MkArtists == 2      \* artists of the short candidate lists
MaxSmallLen == 3    \* longest short candidate list
MaxInputLen == 80   \* longest long candidate list
MaxRun == 3         \* longest run of consecutive candidates of one artist

Candidate(m, a) == [mbid |-> m, artist |-> a, listenbrainz |-> NoArgs]
\* every list of up to MaxSmallLen candidates
SmallInputs == SeqsUpTo({Candidate(m, a) : m \in 1..MkMbids, a \in 1..MkArtists}, MaxSmallLen)
\* lists long enough to reach the size cap: runs of run candidates per artist,
\* every dup-th candidate (dup > 0) repeating the one before it
LongCandidate(i, run, dup) ==
    LET j == IF dup > 0 /\ i % dup = 0 THEN i - 1 ELSE i
    IN Candidate(j, ((j - 1) \div run) + 1)
LongInputs ==
    {[i \in 1..n |-> LongCandidate(i, run, dup)] :
        n \in (max_num_recordings - 2)..MaxInputLen, run \in 1..MaxRun, dup \in {0, 2, 3}}

CountOf(count, a) == IF a \in DOMAIN count THEN count[a] ELSE 0

MakerStart ==
    /\ mk_pos = 1 /\ mk_out = <<>> /\ mk_seen = {} /\ mk_count = NoArgs
    /\ mk_playlist = NoArgs
MakerInit ==
    /\ mk_pc = "walk"
    /\ mk_cfg = PlaylistMakerArgs(S_Daily_Jams, S_rob, FormatDate(<<2024, 4, 2>>), S_daily_jams,
                                  <<2024, 4, 2, <<"T", "u", "e">> >>)
    /\ mk_input \in SmallInputs \cup LongInputs
    /\ MakerStart
MakerIdle ==
    /\ mk_pc = "idle" /\ mk_cfg = NoArgs /\ mk_input = <<>>
    /\ MakerStart

\* step 2 of the assembly: one candidate, in rank order
MakerWalk ==
    /\ mk_pc = "walk"
    /\ mk_pos <= Len(mk_input)
    /\ Len(mk_out) < mk_cfg.max_num_recordings
    /\ LET r == mk_input[mk_pos]
       IN IF r.mbid \in mk_seen \/ CountOf(mk_count, r.artist) + 1 > mk_cfg.max_artist_occurrence
          THEN UNCHANGED <<mk_out, mk_seen, mk_count>>
          ELSE /\ mk_out' = Append(mk_out, r)
               /\ mk_seen' = mk_seen \cup {r.mbid}
               /\ mk_count' = (r.artist :> CountOf(mk_count, r.artist) + 1) @@ mk_count
    /\ mk_pos' = mk_pos + 1
    /\ UNCHANGED <<notMaker, mk_pc, mk_cfg, mk_input, mk_playlist>>

\* step 3: the output is full, or the input is exhausted
MakerStop ==
    /\ mk_pc = "walk"
    /\ mk_pos > Len(mk_input) \/ Len(mk_out) >= mk_cfg.max_num_recordings
    /\ mk_pc' = "shuffle"
    /\ UNCHANGED <<notMaker, mk_cfg, mk_input, mk_pos, mk_out, mk_seen, mk_count, mk_playlist>>

\* steps 4 and 5: the order of the output, and the playlist
MakerShuffle ==
    /\ mk_pc = "shuffle"
    /\ \E order \in Orders(mk_out, mk_cfg) : mk_playlist' = MakePlaylist(order, mk_cfg)
    /\ mk_pc' = "done"
    /\ UNCHANGED <<notMaker, mk_cfg, mk_input, mk_pos, mk_out, mk_seen, mk_count>>

MakerNext == MakerWalk \/ MakerStop \/ MakerShuffle

-----------------------------------------------------------------------------
(* patch.py: Patch.__init__ and the local_storage property.  Dicts are
   objects on a heap and are held by reference. *)

MaxPatches == 2     \* Patch instances constructed
MaxWrites == 3      \* writes the stages make
StorageKeys == {"recs.title", "maker.name"}
StorageValues == {"v1", "v2"}

\* self._local_storage = {}: the reference of the dict the constructor allocates
SharedDictRef(h) == 1
NewDictRef(h) == Len(h) + 1

\* the local_storage property: return self._local_storage
local_storage(p) == patches[p]._local_storage

\* the record of the writes: per key, the value last written and the one before it
LatestWrite(w, k) == IF Has(w, k) THEN w[k].value ELSE "None"

StorageInit ==
    /\ heap = <<>> /\ patches = <<>> /\ handles = {} /\ written = <<>>
    /\ last_read = [n |-> 0]
StorageIdle == StorageInit

\* Patch.__init__, lines 7-16
PatchInit ==
    /\ Len(patches) < MaxPatches
    /\ heap' = Append(heap, NoArgs)
    /\ patches' = Append(patches, [_local_storage |-> NewDictRef(heap)])
    /\ written' = Append(written, NoArgs)
    /\ UNCHANGED <<notStorage, handles, last_read>>

\* a stage evaluates patch.local_storage and keeps what it got
GetLocalStorage ==
    /\ \E p \in 1..Len(patches) : handles' = handles \cup {<<p, local_storage(p)>>}
    /\ UNCHANGED <<notStorage, heap, patches, written, last_read>>

\* a stage stores a value through what it holds: storage[key] = value
StorageWrite ==
    /\ last_read.n < MaxWrites
    /\ \E h \in handles, k \in StorageKeys, v \in StorageValues :
          /\ heap' = [heap EXCEPT ![h[2]] = (k :> v) @@ @]
          /\ written' = [written EXCEPT ![h[1]] =
                              (k :> [value |-> v, before |-> LatestWrite(@, k)]) @@ @]
    /\ last_read' = [n |-> last_read.n + 1]
    /\ UNCHANGED <<notStorage, patches, handles>>

\* a stage reads a key through patch.local_storage: what it finds, next to the
\* most recent write the stages made to that key of that patch
StorageRead ==
    /\ \E p \in 1..Len(patches), k \in StorageKeys :
          last_read' = [n |-> last_read.n, patch |-> p, key |-> k,
                        value |-> Get(heap[local_storage(p)], k),
                        latest |-> LatestWrite(written[p], k)]
    /\ UNCHANGED <<notStorage, heap, patches, handles, written>>

StorageNext == PatchInit \/ GetLocalStorage \/ StorageWrite \/ StorageRead

-----------------------------------------------------------------------------
(* tools/area_lookup.py *)

MaxRows == 2        \* rows the area service answers with
NumAreaIds == 3     \* area ids the service knows
StatusCodes == {200, 404, 500}
AreaNames == {"Berlin", "Atlantis"}

\* the body of a response: text that parses as JSON to a list of rows, or does not
Bodies ==
    {[json |-> FALSE, rows |-> <<>>]}
    \cup {[json |-> TRUE, rows |-> rows] :
             rows \in SeqsUpTo({[area_id |-> a] : a \in 1..NumAreaIds}, MaxRows)}

AreaStart ==
    /\ al_response = NoArgs /\ al_rows = <<>> /\ al_raised = NoError
    /\ al_return = [kind |-> "unset"]
AreaInit ==
    /\ al_pc = "post"
    /\ al_area_name \in AreaNames
    /\ AreaStart
AreaIdle ==
    /\ al_pc = "idle"
    /\ al_area_name = "Berlin"
    /\ AreaStart

\* lines 16-17: the request, answered by the service
AreaPost ==
    /\ al_pc = "post"
    /\ \E code \in StatusCodes, body \in Bodies :
          al_response' = [status_code |-> code, text |-> body]
    /\ al_pc' = "status"
    /\ UNCHANGED <<notArea, al_area_name, al_rows, al_raised, al_return>>

\* lines 18-19
AreaCheckStatus ==
    /\ al_pc = "status"
    /\ IF al_response.status_code # 200
       THEN /\ al_raised' = [kind |-> "PipelineError", msg |-> "Cannot lookup area name. "]
            /\ al_pc' = "raised"
       ELSE /\ al_raised' = al_raised
            /\ al_pc' = "parse"
    /\ UNCHANGED <<notArea, al_area_name, al_response, al_rows, al_return>>

\* lines 21-24: ujson.loads, a ValueError turned into a PipelineError
AreaParse ==
    /\ al_pc = "parse"
    /\ IF al_response.text.json
       THEN /\ al_rows' = al_response.text.rows
            /\ al_raised' = al_raised
            /\ al_pc' = "rows"
       ELSE /\ al_rows' = al_rows
            /\ al_raised' = [kind |-> "PipelineError",
                             msg |-> "Cannot lookup area name, invalid JSON returned: "]
            /\ al_pc' = "raised"
    /\ UNCHANGED <<notArea, al_area_name, al_response, al_return>>

\* lines 26-29
AreaResult ==
    /\ al_pc = "rows"
    /\ IF Len(al_rows) = 0
       THEN /\ al_raised' = [kind |-> "RuntimeError",
                             msg |-> "Cannot find area name. Must be spelled exactly as in MusicBrainz."]
            /\ al_return' = al_return
            /\ al_pc' = "raised"
       ELSE /\ al_raised' = al_raised
            /\ al_return' = [kind |-> "value", value |-> al_rows[1].area_id]
            /\ al_pc' = "returned"
    /\ UNCHANGED <<notArea, al_area_name, al_response, al_rows>>

AreaNext == AreaPost \/ AreaCheckStatus \/ AreaParse \/ AreaResult

-----------------------------------------------------------------------------
(* cli.py: the 'playlist' command and the end of the process *)

MaxFeedback == 2    \* lines of user feedback a patch collects
PatchSlugs == {"periodic-jams", "lb-radio", "area-random-recordings"}

\* the status the operating system reports for sys.exit(code)
ExitStatus(code) == code % 256

CliStart ==
    /\ cli_ret = "unset" /\ cli_feedback = <<>> /\ cli_events = <<>>
    /\ cli_exit = [exited |-> FALSE]
CliInit ==
    /\ cli_pc = "playlist"
    /\ cli_argv \in [patch : PatchSlugs]
    /\ cli_patches \in SUBSET PatchSlugs
    /\ CliStart
CliIdle ==
    /\ cli_pc = "idle"
    /\ cli_argv = [patch |-> "periodic-jams"]
    /\ cli_patches = {}
    /\ CliStart

\* lines 67-71: discover_patches and the test of the patch name
CliDiscover ==
    /\ cli_pc = "playlist"
    /\ IF cli_argv.patch \notin cli_patches
       THEN /\ cli_events' = Append(cli_events, "stderr: Cannot load patch")
            /\ cli_pc' = "command returned"
       ELSE /\ cli_events' = cli_events
            /\ cli_pc' = "instantiate"
    /\ UNCHANGED <<notCli, cli_argv, cli_patches, cli_ret, cli_feedback, cli_exit>>

\* lines 73-100: the arguments and the patch object
CliInstantiate ==
    /\ cli_pc = "instantiate"
    /\ cli_events' = Append(cli_events, "instantiate")
    /\ cli_pc' = "generate"
    /\ UNCHANGED <<notCli, cli_argv, cli_patches, cli_ret, cli_feedback, cli_exit>>

\* line 101: generate_playlist answers a playlist or nothing, or raises; the
\* patch has collected its user feedback by then
CliGenerate ==
    /\ cli_pc = "generate"
    /\ cli_events' = Append(cli_events, "generate_playlist")
    /\ \E outcome \in {"playlist", "None", "raise"} :
          /\ cli_ret' = outcome
          /\ cli_pc' = IF outcome = "raise" THEN "uncaught" ELSE "feedback"
    /\ \E fb \in SeqsUpTo({"feedback"}, MaxFeedback) : cli_feedback' = fb
    /\ UNCHANGED <<notCli, cli_argv, cli_patches, cli_exit>>

\* lines 103-108
CliFeedback ==
    /\ cli_pc = "feedback"
    /\ cli_events' = IF Len(cli_feedback) > 0
                     THEN cli_events \o <<"print: User feedback:">>
                          \o [i \in 1..Len(cli_feedback) |-> "print: feedback line"]
                     ELSE cli_events
    /\ cli_pc' = "exit"
    /\ UNCHANGED <<notCli, cli_argv, cli_patches, cli_ret, cli_feedback, cli_exit>>

\* line 110: sys.exit(0 if ret else -1)
CliExit ==
    /\ cli_pc = "exit"
    /\ cli_exit' = [exited |-> TRUE,
                    status |-> ExitStatus(IF cli_ret = "playlist" THEN 0 ELSE -1)]
    /\ cli_pc' = "exited"
    /\ UNCHANGED <<notCli, cli_argv, cli_patches, cli_ret, cli_feedback, cli_events>>

\* lines 205-207: the command returned, so cli() is over: sys.exit(0)
CliMainExit ==
    /\ cli_pc = "command returned"
    /\ cli_exit' = [exited |-> TRUE, status |-> ExitStatus(0)]
    /\ cli_pc' = "exited"
    /\ UNCHANGED <<notCli, cli_argv, cli_patches, cli_ret, cli_feedback, cli_events>>

\* an exception nothing catches ends the interpreter with status 1
CliUncaught ==
    /\ cli_pc = "uncaught"
    /\ cli_exit' = [exited |-> TRUE, status |-> ExitStatus(1)]
    /\ cli_pc' = "exited"
    /\ UNCHANGED <<notCli, cli_argv, cli_patches, cli_ret, cli_feedback, cli_events>>

CliNext ==
    \/ CliDiscover \/ CliInstantiate \/ CliGenerate \/ CliFeedback \/ CliExit
    \/ CliMainExit \/ CliUncaught

-----------------------------------------------------------------------------
(* cli.py: the 'lb-radio' and 'weekly-jams' commands on a local collection *)

MaxPlaylists == 2     \* playlists a generated result carries
MaxRecordings == 2    \* recordings in one playlist of the result

LocalCommands == {"lb-radio", "weekly-jams"}

\* what generate answers: no object at all, or an object with a list of
\* playlists, each with its list of recordings
LocalPlaylists == [recordings : SeqsUpTo({"recording"}, MaxRecordings)]
LocalResults ==
    {[kind |-> "None"]}
    \cup {[kind |-> "object", playlists |-> ps] :
             ps \in SeqsUpTo(LocalPlaylists, MaxPlaylists)}

\* a probe that stops at the first playlist and never looks at its recordings
FirstPlaylist(playlist) ==
    IF playlist.kind = "None" THEN "AttributeError"
    ELSE IF Len(playlist.playlists) = 0 THEN "IndexError"
    ELSE "ok"

\* lines 164 and 189: playlist.playlists[0].recordings[0], as Python evaluates
\* it from left to right: None has no attribute, an empty list has no item 0
FirstRecording(playlist) ==
    IF playlist.kind = "None" THEN "AttributeError"
    ELSE IF Len(playlist.playlists) = 0 THEN "IndexError"
    ELSE IF Len(playlist.playlists[1].recordings) = 0 THEN "IndexError"
    ELSE "ok"

\* lines 165 and 190: the exceptions the probe's handler takes
ProbeErrors == {"KeyError", "IndexError", "AttributeError"}

LocalInit ==
    /\ cli_pc = "local: db_file_check"
    /\ cli_argv \in [command : LocalCommands, upload_to_subsonic : BOOLEAN]
    /\ cli_patches = {}
    /\ cli_ret = [kind |-> "unset"]
    /\ cli_feedback = <<>> /\ cli_events = <<>>
    /\ cli_exit = [exited |-> FALSE]

\* lines 158 and 182
LocalDbFileCheck ==
    /\ cli_pc = "local: db_file_check"
    /\ cli_events' = Append(cli_events, "db_file_check")
    /\ cli_pc' = "local: open"
    /\ UNCHANGED <<notCli, cli_argv, cli_patches, cli_ret, cli_feedback, cli_exit>>

\* lines 159-160 and 183-184
LocalOpen ==
    /\ cli_pc = "local: open"
    /\ cli_events' = cli_events \o <<"SubsonicDatabase", "db.open">>
    /\ cli_pc' = "local: generate"
    /\ UNCHANGED <<notCli, cli_argv, cli_patches, cli_ret, cli_feedback, cli_exit>>

\* lines 161-162 and 186-187: the generator is built and generate is called;
\* it answers a result or raises
LocalGenerate ==
    /\ cli_pc = "local: generate"
    /\ cli_events' = Append(cli_events, "generate")
    /\ \E outcome \in LocalResults \cup {[kind |-> "raise"]} :
          /\ cli_ret' = outcome
          /\ cli_pc' = IF outcome.kind = "raise" THEN "uncaught" ELSE "local: probe"
    /\ UNCHANGED <<notCli, cli_argv, cli_patches, cli_feedback, cli_exit>>

\* lines 163-167 and 188-192: the probe, and on one of its errors the
\* metadata sanity check and the return
LocalProbe ==
    /\ cli_pc = "local: probe"
    /\ IF FirstRecording(cli_ret) \in ProbeErrors
       THEN /\ cli_events' = Append(cli_events, "metadata_sanity_check")
            /\ cli_pc' = "command returned"
       ELSE /\ cli_events' = cli_events
            /\ cli_pc' = IF FirstRecording(cli_ret) = "ok"
                         THEN "local: output" ELSE "uncaught"
    /\ UNCHANGED <<notCli, cli_argv, cli_patches, cli_ret, cli_feedback, cli_exit>>

\* lines 169 and 194
LocalOutput ==
    /\ cli_pc = "local: output"
    /\ cli_events' = Append(cli_events, "output_playlist")
    /\ cli_pc' = "command returned"
    /\ UNCHANGED <<notCli, cli_argv, cli_patches, cli_ret, cli_feedback, cli_exit>>

LocalNext ==
    \/ LocalDbFileCheck \/ LocalOpen \/ LocalGenerate \/ LocalProbe \/ LocalOutput
    \/ CliMainExit \/ CliUncaught

-----------------------------------------------------------------------------
(* Specifications: one per part of the program, the other parts at rest *)

InitJams == JamsInit /\ MakerIdle /\ StorageIdle /\ AreaIdle /\ CliIdle
SpecJams == InitJams /\ [][JamsNext]_vars

InitMaker == JamsIdle /\ MakerInit /\ StorageIdle /\ AreaIdle /\ CliIdle
SpecMaker == InitMaker /\ [][MakerNext]_vars

InitStorage == JamsIdle /\ MakerIdle /\ StorageInit /\ AreaIdle /\ CliIdle
SpecStorage == InitStorage /\ [][StorageNext]_vars

InitArea == JamsIdle /\ MakerIdle /\ StorageIdle /\ AreaInit /\ CliIdle
SpecArea == InitArea /\ [][AreaNext]_vars

InitCli == JamsIdle /\ MakerIdle /\ StorageIdle /\ AreaIdle /\ CliInit
SpecCli == InitCli /\ [][CliNext]_vars

InitLocal == JamsIdle /\ MakerIdle /\ StorageIdle /\ AreaIdle /\ LocalInit
SpecLocal == InitLocal /\ [][LocalNext]_vars

\* create and area_lookup together: the two places an error kind is chosen
InitErrors == InitJams \/ InitArea
NextErrors == JamsNext \/ AreaNext
SpecErrors == InitErrors /\ [][NextErrors]_vars

Init == InitJams
Next == JamsNext
Spec == Init /\ [][Next]_vars

-----------------------------------------------------------------------------
(* Properties *)

created == pc \in {"returned", "generating", "done"}
ElementKinds ==
    <<"UserRecordingRecommendationsElement", "RecentListensTimestampLookup",
      "NeverListenedFilterElement", "LatestListenedAtFilterElement", "ListensFeedbackLookup",
      "RecordingLookupElement", "HatedRecordingsFilterElement", "PlaylistMakerElement">>
\* the annotation each lookup writes and each filter reads
Writes(kind) ==
    CASE kind = "RecentListensTimestampLookup" -> "latest_listened_at"
      [] kind = "ListensFeedbackLookup" -> "score"
      [] OTHER -> "nothing"
Reads(kind) ==
    CASE kind = "NeverListenedFilterElement" -> "latest_listened_at"
      [] kind = "LatestListenedAtFilterElement" -> "latest_listened_at"
      [] kind = "HatedRecordingsFilterElement" -> "score"
      [] OTHER -> "nothing"
\* the elements from a leaf down to e, following first sources, at most fuel links
RECURSIVE ChainTo(_, _)
ChainTo(e, fuel) ==
    IF fuel = 0 \/ elements[e].sources = <<>> THEN <<e>>
    ELSE Append(ChainTo(elements[e].sources[1], fuel - 1), e)
Chain == ChainTo(ret, Len(elements))
AcceptedInput ==
    \/ ~Has(inputs, "type")
    \/ inputs.type \in {S_daily_jams, S_weekly_jams, S_weekly_exploration}

\* C1: for every accepted jam type create returns the playlist maker at the
\* root of one linear chain recommendations -> recent-listens lookup ->
\* never-listened filter -> latest-listened-at filter -> feedback lookup ->
\* recording lookup -> hated-recordings filter -> playlist maker; the leaf has
\* no source, every other element exactly one, and each filter is downstream
\* of the lookup that writes the annotation it reads.
C1_LinearChain ==
    /\ AcceptedInput => pc # "raised"
    /\ created =>
        LET chain == Chain
            kinds == [i \in 1..Len(chain) |-> elements[chain[i]].kind]
        IN /\ AcceptedInput
           /\ ret = Len(elements)
           /\ elements[ret].kind = "PlaylistMakerElement"
           /\ Len(chain) = Len(elements)
           /\ kinds = ElementKinds
           /\ \A i \in 1..Len(chain) : \A j \in 1..Len(chain) : chain[i] = chain[j] => i = j
           /\ elements[chain[1]].sources = <<>>
           /\ \A i \in 2..Len(chain) : elements[chain[i]].sources = <<chain[i - 1]>>
           /\ \A i \in 1..Len(chain) :
                 Reads(kinds[i]) # "nothing" =>
                    \E j \in 1..(i - 1) : Writes(kinds[j]) = Reads(kinds[i])

C1_Witness ==
    /\ pc = "returned"
    /\ Has(inputs, "type") /\ inputs.type = S_weekly_exploration
    /\ Len(elements) = 8

\* C2: while create runs, and on the path where it rejects its inputs, no
\* element's generate has been invoked and no I/O has been performed; the
\* first generate is the consumer's call on the returned root, after create
\* has returned.
C2_CreateIsLazy ==
    /\ pc \notin {"generating", "done"} =>
          gen_calls = 0 /\ io_ops = 0 /\ gen_stack = <<>> /\ outputs = NoArgs
    /\ gen_calls > 0 \/ io_ops > 0 \/ outputs # NoArgs =>
          /\ pc \in {"generating", "done"}
          /\ ret # 0
          /\ gen_stack # <<>> => gen_stack[1] = ret
          /\ io_ops <= gen_calls

C2_Witness ==
    /\ pc = "returned" /\ Len(elements) = 8 /\ ret = 8
    /\ gen_calls = 0 /\ io_ops = 0

\* C3: create accepts the type exactly when it is absent (daily-jams is then
\* used) or one of daily-jams, weekly-jams, weekly-exploration; any other
\* value is rejected in create before any element has been constructed, and
\* never later.
C3_TypeCheckedFirst ==
    /\ pc = "raised" => ~AcceptedInput /\ elements = <<>> /\ raised.kind # "none"
    /\ pc \notin {"create", "raised"} => AcceptedInput /\ raised = NoError
    /\ elements # <<>> => AcceptedInput
    /\ pc # "create" /\ ~Has(inputs, "type") => jam_type = S_daily_jams
    /\ pc # "create" /\ Has(inputs, "type") => jam_type = inputs.type

C3_Witness ==
    /\ pc = "raised" /\ elements = <<>>
    /\ inputs.type = S_Daily_Jams_mixed

\* C4: every failure is raised as PipelineError: an invalid jam type in
\* create, and each failure of area_lookup (non-200 response, unparseable
\* JSON, empty result set), never another error type.
C4_SingleErrorKind ==
    /\ raised.kind \in {"none", "PipelineError"}
    /\ al_raised.kind \in {"none", "PipelineError"}

\* what reaches the playlist maker, and what the two lookups answered
Reaching == outputs[env.hate_filter]
LookedUp == outputs[env.recent_listens_lookup]
Scored == outputs[env.feedback_lookup]
Among(list, m) == \E i \in 1..Len(list) : list[i].mbid = m
HatedIn(list, m) == \E i \in 1..Len(list) : list[i].mbid = m /\ Hated(list[i])
RecentlyListened(r) == Listened(r) /\ r.listenbrainz.latest_listened_at <= 60
PreviouslyListened(r) == Listened(r) /\ r.listenbrainz.latest_listened_at > 60

\* C5: for daily-jams and weekly-jams only recordings listened to, and not
\* within the last 60 days, reach the playlist maker, and every previously
\* listened recording the user does not hate does reach it; for
\* weekly-exploration only recordings without a listen annotation reach it,
\* and every such recording the user does not hate does; in all three types
\* the hated-recordings filter is the playlist maker's source and no hated
\* recording reaches it.
C5_FilterSenseByType ==
    /\ created => elements[env.pl_maker].sources = <<env.hate_filter>>
                  /\ elements[env.hate_filter].kind = "HatedRecordingsFilterElement"
    /\ (created /\ env.hate_filter \in DOMAIN outputs) =>
        /\ \A i \in 1..Len(Reaching) : ~Hated(Reaching[i]) /\ Among(LookedUp, Reaching[i].mbid)
        /\ jam_type \in {S_daily_jams, S_weekly_jams} =>
            /\ \A i \in 1..Len(Reaching) :
                  PreviouslyListened(Reaching[i]) /\ ~RecentlyListened(Reaching[i])
            /\ \A i \in 1..Len(LookedUp) :
                  PreviouslyListened(LookedUp[i]) /\ ~HatedIn(Scored, LookedUp[i].mbid)
                     => Among(Reaching, LookedUp[i].mbid)
        /\ jam_type = S_weekly_exploration =>
            /\ \A i \in 1..Len(Reaching) : ~Listened(Reaching[i])
            /\ \A i \in 1..Len(LookedUp) :
                  ~Listened(LookedUp[i]) /\ ~HatedIn(Scored, LookedUp[i].mbid)
                     => Among(Reaching, LookedUp[i].mbid)

C5_Witness ==
    /\ pc = "done"
    /\ jam_type = S_weekly_jams
    /\ Len(Reaching) = 1
    /\ \E i \in 1..Len(LookedUp) : RecentlyListened(LookedUp[i])

Times(list, r) == Cardinality({i \in 1..Len(list) : list[i] = r})

\* C6: whatever candidates reach the playlist maker as create configures it,
\* the playlist has at most 50 recordings, at most 2 of any artist and no
\* recording twice, and it holds exactly the recordings a walk of the
\* candidates in rank order selects, whatever order the shuffle gives them.
C6_PlaylistBounds ==
    mk_pc = "done" =>
        LET recs == mk_playlist.recordings
            walked == SelectRecordings(mk_input, [max_num_recordings |-> 50,
                                                  max_artist_occurrence |-> 2])
        IN /\ mk_cfg.shuffle
           /\ Len(recs) <= 50
           /\ \A i \in 1..Len(recs) : ArtistCount(recs, recs[i].artist) <= 2
           /\ \A i \in 1..Len(recs) : \A j \in 1..Len(recs) :
                 recs[i].mbid = recs[j].mbid => i = j
           /\ Len(recs) = Len(walked)
           /\ \A i \in 1..Len(walked) : Times(recs, walked[i]) = 1
           /\ mk_out = walked

C6_Witness ==
    /\ mk_pc = "done"
    /\ Len(mk_playlist.recordings) = 50
    /\ mk_pos <= Len(mk_input)
    /\ mk_pos - 1 > Len(mk_out)
    /\ mk_playlist.recordings # mk_out

\* C7: a Patch's local storage is empty at construction; the local_storage
\* property returns, every time, the one map the instance owns, so a read of
\* a key finds the value of the most recent write to that key of that patch
\* as soon as it is made, and nothing written for one patch shows in another.
C7_LocalStorage ==
    /\ \A h \in handles : h[2] = local_storage(h[1])
    /\ \A p \in 1..Len(patches) : \A q \in 1..Len(patches) :
          local_storage(p) = local_storage(q) => p = q
    /\ \A p \in 1..Len(patches) :
          /\ DOMAIN heap[local_storage(p)] = DOMAIN written[p]
          /\ \A k \in DOMAIN written[p] : heap[local_storage(p)][k] = written[p][k].value
          /\ (\A h \in handles : h[1] # p) => heap[local_storage(p)] = NoArgs
    /\ Has(last_read, "value") => last_read.value = last_read.latest

C7_Witness ==
    /\ Len(patches) = 2
    /\ Has(last_read, "value") /\ last_read.patch = 1 /\ last_read.value = "v2"
    /\ Has(written[1], last_read.key) /\ written[1][last_read.key].before = "v1"
    /\ written[2] # NoArgs
    /\ written[2] # written[1]

\* C8: area_lookup returns the area_id of the first row when the area is
\* found, and returns None when it is not (the service answers 200 with no
\* rows).
C8_NoneWhenNotFound ==
    al_pc \in {"returned", "raised"} /\ al_response.status_code = 200 /\ al_response.text.json =>
        /\ al_pc = "returned"
        /\ IF Len(al_response.text.rows) = 0
           THEN al_return.kind = "None"
           ELSE al_return = [kind |-> "value", value |-> al_response.text.rows[1].area_id]

\* the date the jam is for, as given or as the clock has it, and what it says
JamDay == IF Has(inputs, "jam_date") THEN inputs.jam_date ELSE StrftimeYmdA(clock)
MonthOf(d) == 10 * DigitVal(d[6]) + DigitVal(d[7])
DayOf(d) == 10 * DigitVal(d[9]) + DigitVal(d[10])
JamNameOf(t) ==
    IF t = S_daily_jams THEN S_Daily_Jams
    ELSE IF t = S_weekly_jams THEN S_Weekly_Jams ELSE S_Weekly_Exploration

\* C9: the is_april_first flag handed to the playlist maker is true exactly
\* when the jam date (the one supplied, or today's UTC date) is an April 1st,
\* for every jam type; and the playlist is named "<jam name> for <user>,
\* <date>", the date prefixed by "week of " for the two weekly types.
C9_AprilFirstFlag ==
    created =>
        /\ elements[ret].args.is_april_first <=> (MonthOf(JamDay) = 4 /\ DayOf(JamDay) = 1)
        /\ elements[ret].args.name =
              JamNameOf(jam_type) \o S_for \o inputs.user_name \o S_comma
              \o (IF jam_type = S_daily_jams THEN <<>> ELSE S_week_of) \o JamDay

cli_found == cli_argv.patch \in cli_patches
Before(events, a, b) ==
    \A j \in 1..Len(events) : events[j] = b => \E i \in 1..(j - 1) : events[i] = a

\* C10: the playlist command instantiates a patch and calls generate_playlist
\* only when the patch name is among the discovered patches; it ends with
\* status 0 only when the patch was found and generate_playlist answered a
\* playlist, and with a non-zero status in every other case; user feedback is
\* printed only after generation and before the exit.
C10_ExitStatus ==
    /\ \A i \in 1..Len(cli_events) :
          cli_events[i] \in {"instantiate", "generate_playlist"} => cli_found
    /\ Before(cli_events, "generate_playlist", "print: User feedback:")
    /\ cli_exit.exited =>
          (cli_exit.status = 0 <=> (cli_found /\ cli_ret = "playlist"))

Occurrences(events, e) == Cardinality({i \in 1..Len(events) : events[i] = e})
local_generated == cli_ret.kind \in {"None", "object"}
local_returned == cli_pc \in {"command returned", "exited"} /\ local_generated
has_first_recording ==
    /\ cli_ret.kind = "object"
    /\ Len(cli_ret.playlists) >= 1
    /\ Len(cli_ret.playlists[1].recordings) >= 1

\* C11: in the lb-radio and weekly-jams commands the database is opened
\* before generation starts, and once generation has answered and the command
\* has returned exactly one of two things has happened: output_playlist was
\* called once and the metadata sanity check not at all when the result has a
\* first playlist with at least one recording, the metadata sanity check was
\* run once and output_playlist never in every other case (no result object,
\* no playlists, a first playlist without recordings); neither happens before
\* generation has answered.
C11_OutputOrSanityCheck ==
    LET outputs_made == Occurrences(cli_events, "output_playlist")
        checks_made == Occurrences(cli_events, "metadata_sanity_check")
    IN  /\ Before(cli_events, "db.open", "generate")
        /\ ~local_generated => outputs_made = 0 /\ checks_made = 0
        /\ local_generated =>
              IF has_first_recording
              THEN checks_made = 0 /\ outputs_made <= 1
              ELSE outputs_made = 0 /\ checks_made <= 1
        /\ local_returned =>
              IF has_first_recording
              THEN outputs_made = 1 /\ checks_made = 0
              ELSE checks_made = 1 /\ outputs_made = 0

\* a weekly-jams run whose result has playlists but an empty first one has
\* ended after the sanity check
C11_Witness ==
    /\ cli_exit.exited
    /\ cli_argv.command = "weekly-jams"
    /\ cli_ret.kind = "object"
    /\ Len(cli_ret.playlists) = MaxPlaylists
    /\ Len(cli_ret.playlists[1].recordings) = 0
    /\ Len(cli_ret.playlists[2].recordings) > 0
    /\ Occurrences(cli_events, "metadata_sanity_check") = 1

====
